---- MODULE Spec2Model ----
(***************************************************************************)
(* numenor_monitor: the request-logging middleware and its batching        *)
(* RequestLogger (src/numenor_monitor/middlewares.py).                     *)
(*                                                                         *)
(* Spec        the deployed configuration: the module-level request_logger *)
(*             with its background thread, fed by RequestLoggingMiddleware *)
(*             running in concurrent request threads.                      *)
(* LoggerSpec  a RequestLogger with its background thread, log_request     *)
(*             called directly by concurrent threads.                      *)
(* LiveSpec    LoggerSpec with the fairness of the thread scheduler and    *)
(*             of the clock.                                               *)
(* SyncSpec    the worker-less configuration of the test suite:            *)
(*             RequestLogger(use_thread=False), log_request called         *)
(*             directly and drained with process_batch.                    *)
(* MixedSpec   a RequestLogger with its background thread on which         *)
(*             process_batch is called as well.                            *)
(* FieldSpec   one middleware call on each request and response of the     *)
(*             bounded sets: the derivation of the record's fields.        *)
(***************************************************************************)
EXTENDS Integers, Sequences, FiniteSets, TLC

\* ------------------------------------------------------------- bounds
\* Direct log_request calls (LoggerSpec, LiveSpec, SyncSpec).
MaxRecords == 3
\* Middleware calls (Spec).
MaxRequests == 2
MaxBatchSize == 2
MaxFlushInterval == 1
\* Field derivation (FieldSpec): lengths of the CONTENT_LENGTH text, of the
\* X-Forwarded-For text, of the response body and of the request body.
MaxHeaderLen == 2
MaxForwardedLen == 2
MaxContentLen == 1
MaxBodyLen == 1

\* request_logger = RequestLogger(batch_size=50, flush_interval=5)
RequestLoggerBatchSize == 50
RequestLoggerFlushInterval == 5

\* Request threads (callers of the middleware / of log_request).
Producers == {"p1", "p2"}

\* Python's None.
None == "None"

Ids == 1..MaxRecords

\* ------------------------------------------------------------- state
VARIABLES
    queue,          \* self.queue: the records put and not yet got, head first
    batch_size,     \* self.batch_size
    flush_interval, \* self.flush_interval (seconds)
    last_flush,     \* self.last_flush
    thread,         \* self.thread: None, or the position of _process_queue
    batch,          \* the list `batch` local to _process_queue
    now,            \* timezone.now(), in seconds
    inserts,        \* every Request.objects.bulk_create call made, in order
    log,            \* the error lines given to logging
    nextId,         \* the number of the next request
    enqueued,       \* the ids of the records log_request has put
    ppc,            \* per request thread: idle, or inside get_response
    reqId,          \* per request thread: the request of its latest middleware call
    hres,           \* per request thread: what get_response did in that call
    result,         \* per request thread: what the middleware call did
    lastPB,         \* the latest process_batch call: queue before, calls, outcome
    http_request,   \* the HttpRequest of the middleware call whose fields are derived
    http_response   \* the HttpResponse get_response returned in that call

vars == <<queue, batch_size, flush_interval, last_flush, thread, batch, now,
          inserts, log, nextId, enqueued, ppc, reqId, hres, result, lastPB,
          http_request, http_response>>

loggerVars == <<batch_size, flush_interval>>
workerVars == <<thread, batch>>
mwVars == <<ppc, reqId, hres, result>>
fieldVars == <<http_request, http_response>>

\* ------------------------------------------------------------- data
\* What get_response can return: the HttpResponse values of the tests.
Responses ==
    { [status_code |-> 200, content |-> "OK"],
      [status_code |-> 404, content |-> "Error"] }

\* What get_response can raise (test_views.cause_404, cause_500).
Exceptions == {"Http404", "Exception"}

\* How a call ended: by returning a value or by raising an exception.
NoOutcome == [kind |-> "none"]

Returned(response) == [kind |-> "return", value |-> response]

Raising(exc) == [kind |-> "raise", exc |-> exc]

\* No process_batch call made yet.
NoCall == [called |-> FALSE]

\* No request and response held for field derivation.
NoRequest == [held |-> FALSE]

NoResponse == [held |-> FALSE]

\* request.META.get("CONTENT_LENGTH"): absent, empty, decimal digits, or junk.
Digit == [c \in {"0", "1", "2", "3", "4", "5", "6", "7", "8", "9"} |->
            CASE c = "0" -> 0 [] c = "1" -> 1 [] c = "2" -> 2 [] c = "3" -> 3
              [] c = "4" -> 4 [] c = "5" -> 5 [] c = "6" -> 6 [] c = "7" -> 7
              [] c = "8" -> 8 [] c = "9" -> 9]

Absent == [present |-> FALSE, text |-> <<>>]

Header(text) == [present |-> TRUE, text |-> text]

ContentLengths == {Absent, Header(<<>>), Header(<<"0">>), Header(<<"x">>)}

BodyLengths == {0}

\* int(s) for a str s: its value, or the ValueError raised.
Value(v) == [raised |-> FALSE, value |-> v]

Raised(exc) == [raised |-> TRUE, exc |-> exc]

RECURSIVE DigitsValue(_)
DigitsValue(s) ==
    IF s = <<>> THEN 0
    ELSE 10 * DigitsValue(SubSeq(s, 1, Len(s) - 1)) + Digit[s[Len(s)]]

PyInt(s) ==
    IF s # <<>> /\ \A i \in 1..Len(s) : s[i] \in DOMAIN Digit
    THEN Value(DigitsValue(s))
    ELSE Raised("ValueError")

\* _calculate_sizes, the request half: the size, or the exception raised.
CalculateRequestSize(content_length, body_len) ==
    IF content_length.present /\ content_length.text # <<>>
    THEN PyInt(content_length.text)
    ELSE Value(body_len)

\* The dict log_request builds from its arguments (the fields the model carries).
Record(id, src, status_code, request_size) ==
    [id |-> id, src |-> src, status_code |-> status_code,
     request_size |-> request_size]

\* Request(**item): the model instance of a queued dict, not yet saved.
RequestOf(item) == item

\* The ids of a sequence of records.
IdsOf(s) == { s[i].id : i \in 1..Len(s) }

\* ------------------------------------------------------------- RequestLogger
\* queue.Queue(): unbounded FIFO; put never blocks, get takes the oldest item.
\* Mutant: put at the head of the queue.
PutFront(q, item) == <<item>> \o q

Put(q, item) == Append(q, item)

\* Mutant: queue.LifoQueue, get takes the newest item.
GetLifo(q) == [item |-> q[Len(q)], rest |-> SubSeq(q, 1, Len(q) - 1)]

\* Mutant: the oldest item is read and left on the queue.
GetPeek(q) == [item |-> Head(q), rest |-> q]

Get(q) == [item |-> Head(q), rest |-> Tail(q)]

\* RequestLogger.__init__, common part.
InitLogger ==
    /\ queue = <<>>
    /\ batch_size \in 0..MaxBatchSize
    /\ flush_interval \in 1..MaxFlushInterval
    /\ now = 0
    /\ last_flush = now
    /\ batch = <<>>
    /\ inserts = <<>>
    /\ log = {}
    /\ nextId = 1
    /\ enqueued = {}
    /\ ppc = [p \in Producers |-> "idle"]
    /\ reqId = [p \in Producers |-> 0]
    /\ hres = [p \in Producers |-> NoOutcome]
    /\ result = [p \in Producers |-> NoOutcome]
    /\ lastPB = NoCall
    /\ http_request = NoRequest
    /\ http_response = NoResponse

\* request_logger = RequestLogger(batch_size=.., flush_interval=..): thread started.
Init ==
    /\ InitLogger
    /\ thread = "start"

\* RequestLogger(batch_size=.., use_thread=False): self.thread = None.
SyncInit ==
    /\ InitLogger
    /\ thread = None

\* Mutant: queue.Queue(maxsize=1), put blocks while the queue is full.
LogRequestBounded(item) ==
    /\ Len(queue) < 1
    /\ queue' = Put(queue, item)
    /\ enqueued' = enqueued \cup {item.id}

\* log_request: self.queue.put({...}).
LogRequest(item) ==
    /\ queue' = Put(queue, item)
    /\ enqueued' = enqueued \cup {item.id}

\* A direct call of log_request by thread p, with the arguments of the tests.
LogRequestCall(p) ==
    /\ nextId <= MaxRecords
    /\ LogRequest(Record(nextId, p, 200, 0))
    /\ nextId' = nextId + 1
    /\ UNCHANGED <<loggerVars, last_flush, workerVars, now, inserts, log,
                   mwVars, lastPB, fieldVars>>

\* Mutant: `if len(batch) > self.batch_size`.
BatchFullGt(b) == Len(b) > batch_size

\* process_batch, line 111: len(batch) >= self.batch_size.
BatchFull(b) == Len(b) >= batch_size

\* The i-th bulk_create call of a process_batch run, which raises iff i = failAt.
BulkCreate(b, i, failAt) == [recs |-> b, ok |-> i # failAt, by |-> "process_batch"]

\* Mutant: bulk_create in try/except, a failed batch is dropped and the loop
\* goes on.
RECURSIVE PBLoopSwallow(_, _, _, _)
PBLoopSwallow(q, b, calls, failAt) ==
    LET n == Len(calls) + 1 IN
    IF q = <<>>
    THEN IF b # <<>>
         THEN [queue |-> q, calls |-> Append(calls, BulkCreate(b, n, failAt)),
               raised |-> FALSE]
         ELSE [queue |-> q, calls |-> calls, raised |-> FALSE]
    ELSE LET got == Get(q)
             b2 == Append(b, RequestOf(got.item))
         IN  IF BatchFull(b2)
             THEN PBLoopSwallow(got.rest, <<>>,
                                Append(calls, BulkCreate(b2, n, failAt)), failAt)
             ELSE PBLoopSwallow(got.rest, b2, calls, failAt)

\* The loop of process_batch from queue q and local batch b, after the calls
\* `calls`: what is left on the queue, the calls made, and whether one raised.
RECURSIVE PBLoop(_, _, _, _)
PBLoop(q, b, calls, failAt) ==
    LET n == Len(calls) + 1 IN
    IF q = <<>>
    THEN IF b # <<>>
         THEN [queue |-> q, calls |-> Append(calls, BulkCreate(b, n, failAt)),
               raised |-> n = failAt]
         ELSE [queue |-> q, calls |-> calls, raised |-> FALSE]
    ELSE LET got == Get(q)
             b2 == Append(b, RequestOf(got.item))
         IN  IF BatchFull(b2)
             THEN IF n = failAt
                  THEN [queue |-> got.rest,
                        calls |-> Append(calls, BulkCreate(b2, n, failAt)),
                        raised |-> TRUE]
                  ELSE PBLoop(got.rest, <<>>,
                              Append(calls, BulkCreate(b2, n, failAt)), failAt)
             ELSE PBLoop(got.rest, b2, calls, failAt)

\* Mutant: process_batch resets last_flush as _flush_batch does.
ProcessBatchStamps ==
    /\ \E failAt \in 0..MaxRecords :
          LET r == PBLoop(queue, <<>>, <<>>, failAt)
          IN  /\ queue' = r.queue
              /\ inserts' = inserts \o r.calls
              /\ lastPB' = [called |-> TRUE, pre |-> queue, calls |-> r.calls,
                            raised |-> r.raised, post |-> r.queue]
              /\ last_flush' = IF r.raised THEN last_flush ELSE now
    /\ UNCHANGED <<loggerVars, workerVars, now, log, nextId,
                   enqueued, mwVars, fieldVars>>

\* process_batch(), one whole call; failAt = 0: no bulk_create raises.
ProcessBatch ==
    /\ \E failAt \in 0..MaxRecords :
          LET r == PBLoop(queue, <<>>, <<>>, failAt)
          IN  /\ queue' = r.queue
              /\ inserts' = inserts \o r.calls
              /\ lastPB' = [called |-> TRUE, pre |-> queue, calls |-> r.calls,
                            raised |-> r.raised, post |-> r.queue]
    /\ UNCHANGED <<loggerVars, last_flush, workerVars, now, log, nextId,
                   enqueued, mwVars, fieldVars>>

\* timezone.now() moves on. Time is read only in `now - last_flush > flush_interval`,
\* so the clock is not advanced further once that comparison is true.
Tick ==
    /\ now - last_flush <= flush_interval
    /\ now' = now + 1
    /\ UNCHANGED <<queue, loggerVars, last_flush, workerVars, inserts, log,
                   nextId, enqueued, mwVars, lastPB, fieldVars>>

\* ------------------------------------------------------------- _process_queue
\* connection.ensure_connection(): the thread enters its loop, or dies of the
\* exception ensure_connection raised.
WorkerConnect ==
    /\ thread = "start"
    /\ \E ok \in BOOLEAN : thread' = IF ok THEN "get" ELSE "dead"
    /\ UNCHANGED <<queue, loggerVars, last_flush, batch, now, inserts, log,
                   nextId, enqueued, mwVars, lastPB, fieldVars>>

\* Mutant: the size test is len(batch) > self.batch_size.
WorkerGetGt ==
    /\ thread = "get"
    /\ queue # <<>>
    /\ LET got == Get(queue)
           b == Append(batch, RequestOf(got.item))
       IN  /\ queue' = got.rest
           /\ batch' = b
           /\ thread' = IF Len(b) > batch_size THEN "flush_size" ELSE "time_check"
    /\ UNCHANGED <<loggerVars, last_flush, now, inserts, log, nextId, enqueued,
                   mwVars, lastPB, fieldVars>>

\* item = self.queue.get(timeout=1); batch.append(Request(**item));
\* then the size test of line 131.
WorkerGet ==
    /\ thread = "get"
    /\ queue # <<>>
    /\ LET got == Get(queue)
           b == Append(batch, RequestOf(got.item))
       IN  /\ queue' = got.rest
           /\ batch' = b
           /\ thread' = IF Len(b) >= batch_size THEN "flush_size" ELSE "time_check"
    /\ UNCHANGED <<loggerVars, last_flush, now, inserts, log, nextId, enqueued,
                   mwVars, lastPB, fieldVars>>

\* Mutant: `except queue.Empty: continue`, the wait starts over without the
\* time check.
WorkerTimeoutContinue ==
    /\ thread = "get"
    /\ queue = <<>>
    /\ thread' = "get"
    /\ UNCHANGED <<queue, loggerVars, last_flush, batch, now, inserts, log,
                   nextId, enqueued, mwVars, lastPB, fieldVars>>

\* queue.get(timeout=1) raises queue.Empty: pass, on to the time check.
WorkerTimeout ==
    /\ thread = "get"
    /\ queue = <<>>
    /\ thread' = "time_check"
    /\ UNCHANGED <<queue, loggerVars, last_flush, batch, now, inserts, log,
                   nextId, enqueued, mwVars, lastPB, fieldVars>>

\* Mutant: the except branch forgets batch.clear().
FlushBatchKeepOnError(ok) ==
    /\ inserts' = Append(inserts, [recs |-> batch, ok |-> ok, by |-> "worker"])
    /\ batch' = IF ok THEN <<>> ELSE batch
    /\ last_flush' = IF ok THEN now ELSE last_flush
    /\ log' = IF ok THEN log
              ELSE log \cup {[msg |-> "Error bulk creating records", cause |-> "DB error",
                               ref |-> Len(inserts) + 1]}
    /\ UNCHANGED queue

\* Mutant: the except branch puts the failed records back on the queue.
FlushBatchRequeue(ok) ==
    /\ inserts' = Append(inserts, [recs |-> batch, ok |-> ok, by |-> "worker"])
    /\ batch' = <<>>
    /\ last_flush' = IF ok THEN now ELSE last_flush
    /\ log' = IF ok THEN log
              ELSE log \cup {[msg |-> "Error bulk creating records", cause |-> "DB error",
                               ref |-> Len(inserts) + 1]}
    /\ queue' = IF ok THEN queue ELSE queue \o batch

\* Mutant: the except branch clears the batch and logs nothing.
FlushBatchSilent(ok) ==
    /\ inserts' = Append(inserts, [recs |-> batch, ok |-> ok, by |-> "worker"])
    /\ batch' = <<>>
    /\ last_flush' = IF ok THEN now ELSE last_flush
    /\ UNCHANGED <<log, queue>>

\* Mutant: last_flush is set in a finally clause, after a failure too.
FlushBatchStampAlways(ok) ==
    /\ inserts' = Append(inserts, [recs |-> batch, ok |-> ok, by |-> "worker"])
    /\ batch' = <<>>
    /\ last_flush' = now
    /\ log' = IF ok THEN log
              ELSE log \cup {[msg |-> "Error bulk creating records", cause |-> "DB error",
                               ref |-> Len(inserts) + 1]}
    /\ UNCHANGED queue

\* _flush_batch(batch): bulk_create returns (ok) or raises (~ok).
FlushBatch(ok) ==
    /\ inserts' = Append(inserts, [recs |-> batch, ok |-> ok, by |-> "worker"])
    /\ batch' = <<>>
    /\ last_flush' = IF ok THEN now ELSE last_flush
    /\ log' = IF ok THEN log
              ELSE log \cup {[msg |-> "Error bulk creating records", cause |-> "DB error",
                               ref |-> Len(inserts) + 1]}
    /\ UNCHANGED queue

\* Mutant: an exception of bulk_create leaves _flush_batch and ends the thread.
WorkerFlushSizeFatal ==
    /\ thread = "flush_size"
    /\ \E ok \in BOOLEAN :
          /\ FlushBatch(ok)
          /\ thread' = IF ok THEN "time_check" ELSE "dead"
    /\ UNCHANGED <<loggerVars, now, nextId, enqueued, mwVars, lastPB, fieldVars>>

\* self._flush_batch(batch) of line 132.
WorkerFlushSize ==
    /\ thread = "flush_size"
    /\ \E ok \in BOOLEAN : FlushBatch(ok)
    /\ thread' = "time_check"
    /\ UNCHANGED <<loggerVars, now, nextId, enqueued, mwVars, lastPB, fieldVars>>

\* Mutant: the time test without `batch and`.
WorkerTimeCheckAnyBatch ==
    /\ thread = "time_check"
    /\ thread' = IF now - last_flush > flush_interval
                 THEN "flush_time" ELSE "get"
    /\ UNCHANGED <<queue, loggerVars, last_flush, batch, now, inserts, log,
                   nextId, enqueued, mwVars, lastPB, fieldVars>>

\* Mutant: the time test is `>= self.flush_interval`.
WorkerTimeCheckGe ==
    /\ thread = "time_check"
    /\ thread' = IF batch # <<>> /\ now - last_flush >= flush_interval
                 THEN "flush_time" ELSE "get"
    /\ UNCHANGED <<queue, loggerVars, last_flush, batch, now, inserts, log,
                   nextId, enqueued, mwVars, lastPB, fieldVars>>

\* The time test of lines 136-140.
WorkerTimeCheck ==
    /\ thread = "time_check"
    /\ thread' = IF batch # <<>> /\ now - last_flush > flush_interval
                 THEN "flush_time" ELSE "get"
    /\ UNCHANGED <<queue, loggerVars, last_flush, batch, now, inserts, log,
                   nextId, enqueued, mwVars, lastPB, fieldVars>>

\* self._flush_batch(batch) of line 141.
WorkerFlushTime ==
    /\ thread = "flush_time"
    /\ \E ok \in BOOLEAN : FlushBatch(ok)
    /\ thread' = "get"
    /\ UNCHANGED <<loggerVars, now, nextId, enqueued, mwVars, lastPB, fieldVars>>

WorkerStep ==
    \/ WorkerConnect
    \/ WorkerGet
    \/ WorkerTimeout
    \/ WorkerFlushSize
    \/ WorkerTimeCheck
    \/ WorkerFlushTime

\* ------------------------------------------------------------- middleware
\* __call__, lines 194-195: start_at taken, get_response(request) entered.
MwBegin(p) ==
    /\ ppc[p] = "idle"
    /\ nextId <= MaxRequests
    /\ ppc' = [ppc EXCEPT ![p] = "handler"]
    /\ reqId' = [reqId EXCEPT ![p] = nextId]
    /\ hres' = [hres EXCEPT ![p] = NoOutcome]
    /\ result' = [result EXCEPT ![p] = NoOutcome]
    /\ nextId' = nextId + 1
    /\ UNCHANGED <<queue, loggerVars, last_flush, workerVars, now, inserts, log,
                   enqueued, lastPB, fieldVars>>

\* Mutant: the except branch answers with an error response of its own.
MwReturnErrorPage(p, response, content_length, body_len) ==
    /\ ppc[p] = "handler"
    /\ LET request_size == CalculateRequestSize(content_length, body_len)
       IN  IF request_size.raised
           THEN /\ log' = log \cup {[msg |-> "Error in RequestLoggingMiddleware",
                                     cause |-> request_size.exc, ref |-> reqId[p]]}
                /\ result' = [result EXCEPT ![p] =
                       Returned([status_code |-> 500, content |-> "Server Error"])]
                /\ UNCHANGED <<queue, enqueued>>
           ELSE /\ LogRequest(Record(reqId[p], p, response.status_code,
                                      request_size.value))
                /\ result' = [result EXCEPT ![p] = Returned(response)]
                /\ UNCHANGED log
    /\ hres' = [hres EXCEPT ![p] = Returned(response)]
    /\ ppc' = [ppc EXCEPT ![p] = "idle"]
    /\ UNCHANGED <<loggerVars, last_flush, workerVars, now, inserts, nextId,
                   reqId, lastPB, fieldVars>>

\* Mutant: log_request is called in the try block and again before the return.
MwReturnTwice(p, response, content_length, body_len) ==
    /\ ppc[p] = "handler"
    /\ LET request_size == CalculateRequestSize(content_length, body_len)
       IN  IF request_size.raised
           THEN /\ log' = log \cup {[msg |-> "Error in RequestLoggingMiddleware",
                                     cause |-> request_size.exc, ref |-> reqId[p]]}
                /\ UNCHANGED <<queue, enqueued>>
           ELSE /\ LET item == Record(reqId[p], p, response.status_code,
                                      request_size.value)
                   IN  /\ queue' = Put(Put(queue, item), item)
                       /\ enqueued' = enqueued \cup {item.id}
                /\ UNCHANGED log
    /\ hres' = [hres EXCEPT ![p] = Returned(response)]
    /\ result' = [result EXCEPT ![p] = Returned(response)]
    /\ ppc' = [ppc EXCEPT ![p] = "idle"]
    /\ UNCHANGED <<loggerVars, last_flush, workerVars, now, inserts, nextId,
                   reqId, lastPB, fieldVars>>

\* get_response returns `response`: lines 196-225.
MwReturn(p, response, content_length, body_len) ==
    /\ ppc[p] = "handler"
    /\ LET request_size == CalculateRequestSize(content_length, body_len)
       IN  IF request_size.raised
           THEN /\ log' = log \cup {[msg |-> "Error in RequestLoggingMiddleware",
                                     cause |-> request_size.exc, ref |-> reqId[p]]}
                /\ UNCHANGED <<queue, enqueued>>
           ELSE /\ LogRequest(Record(reqId[p], p, response.status_code,
                                      request_size.value))
                /\ UNCHANGED log
    /\ hres' = [hres EXCEPT ![p] = Returned(response)]
    /\ result' = [result EXCEPT ![p] = Returned(response)]
    /\ ppc' = [ppc EXCEPT ![p] = "idle"]
    /\ UNCHANGED <<loggerVars, last_flush, workerVars, now, inserts, nextId,
                   reqId, lastPB, fieldVars>>

\* Mutant: get_response inside try/finally, a record is put before the
\* exception goes on.
MwRaiseLogged(p, exc) ==
    /\ ppc[p] = "handler"
    /\ LogRequest(Record(reqId[p], p, 500, 0))
    /\ hres' = [hres EXCEPT ![p] = Raising(exc)]
    /\ result' = [result EXCEPT ![p] = Raising(exc)]
    /\ ppc' = [ppc EXCEPT ![p] = "idle"]
    /\ UNCHANGED <<loggerVars, last_flush, workerVars, now, inserts, log,
                   nextId, reqId, lastPB, fieldVars>>

\* get_response raises `exc`: line 195 is outside the try, the call ends there.
MwRaise(p, exc) ==
    /\ ppc[p] = "handler"
    /\ hres' = [hres EXCEPT ![p] = Raising(exc)]
    /\ result' = [result EXCEPT ![p] = Raising(exc)]
    /\ ppc' = [ppc EXCEPT ![p] = "idle"]
    /\ UNCHANGED <<queue, loggerVars, last_flush, workerVars, now, inserts, log,
                   nextId, enqueued, reqId, lastPB, fieldVars>>

MwCall ==
    \E p \in Producers :
        \/ MwBegin(p)
        \/ \E response \in Responses, cl \in ContentLengths, bl \in BodyLengths :
              MwReturn(p, response, cl, bl)
        \/ \E exc \in Exceptions : MwRaise(p, exc)

\* ------------------------------------------------------------- record fields
\* The requests and responses of the field derivation: header texts and bodies
\* are sequences of characters and of byte values.
SeqsUpTo(S, n) == UNION { [1..k -> S] : k \in 0..n }

\* CONTENT_LENGTH: absent, or a text of digits and letters.
ContentLengthHeaders ==
    {Absent} \cup { Header(t) : t \in SeqsUpTo({"7", "x"}, MaxHeaderLen) }

\* HTTP_X_FORWARDED_FOR: absent, or a text of address characters, blanks and
\* commas.
ForwardedHeaders ==
    {Absent} \cup { Header(t) : t \in SeqsUpTo({"a", " ", ","}, MaxForwardedLen) }

\* REMOTE_ADDR: absent, or the peer address.
RemoteAddrs == {Absent, Header(<<"b">>)}

\* request.user values: None, AnonymousUser, a logged-in User.
PyNoneUser == [is_none |-> TRUE, is_authenticated |-> FALSE, username |-> ""]

AnonymousUser == [is_none |-> FALSE, is_authenticated |-> FALSE, username |-> ""]

AuthUser(username) ==
    [is_none |-> FALSE, is_authenticated |-> TRUE, username |-> username]

\* The user attribute of a request: missing (no auth middleware), or a value.
UserAttrs ==
    {[has_attr |-> FALSE, value |-> PyNoneUser]} \cup
    { [has_attr |-> TRUE, value |-> u] :
          u \in {PyNoneUser, AnonymousUser, AuthUser("testuser")} }

HttpRequests ==
    [held : {TRUE},
     content_length : ContentLengthHeaders,
     body_len : 0..MaxBodyLen,
     x_forwarded_for : ForwardedHeaders,
     remote_addr : RemoteAddrs,
     user : UserAttrs]

\* Byte values of a response body: "E", and 0xFF, which no UTF-8 text holds.
Chr == 69 :> "E"

Bytes == DOMAIN Chr \cup {255}

StatusCodes == {200, 399, 400}

\* An HttpResponse with its content, or a StreamingHttpResponse, which has none.
HttpResponses ==
    [held : {TRUE}, status_code : StatusCodes, has_content : {TRUE},
     content : SeqsUpTo(Bytes, MaxContentLen)]
    \cup
    [held : {TRUE}, status_code : StatusCodes, has_content : {FALSE},
     content : {<<>>}]

\* bytes.decode("utf-8"): the text, or the UnicodeDecodeError raised.
Decode(content) ==
    IF \A i \in 1..Len(content) : content[i] \in DOMAIN Chr
    THEN Value([i \in 1..Len(content) |-> Chr[content[i]]])
    ELSE Raised("UnicodeDecodeError")

\* str(content) for bytes: the b'...' literal, bytes outside ASCII escaped.
BytesRepr(content) ==
    <<"b", "'">> \o
    [i \in 1..Len(content) |->
        IF content[i] \in DOMAIN Chr THEN Chr[content[i]] ELSE "\\xff"] \o
    <<"'">>

\* str.split(",")[0]: the text before the first comma.
RECURSIVE SplitFirst(_)
SplitFirst(s) ==
    IF s = <<>> \/ Head(s) = "," THEN <<>>
    ELSE <<Head(s)>> \o SplitFirst(Tail(s))

\* Mutant: the first entry with a part of its surrounding blanks removed.
GetClientIpLstrip(req) ==
    IF req.x_forwarded_for.present /\ req.x_forwarded_for.text # <<>>
    THEN LET ip == SplitFirst(req.x_forwarded_for.text)
         IN  IF ip # <<>> /\ Head(ip) = " " THEN Header(Tail(ip)) ELSE Header(ip)
    ELSE req.remote_addr

\* get_client_ip, lines 227-244.
GetClientIp(req) ==
    IF req.x_forwarded_for.present /\ req.x_forwarded_for.text # <<>>
    THEN Header(SplitFirst(req.x_forwarded_for.text))
    ELSE req.remote_addr

\* _calculate_sizes, the response half, line 260.
CalculateResponseSize(resp) ==
    IF resp.has_content THEN Len(resp.content) ELSE 0

\* Mutant: the error content is taken for every status.
GetErrorContentAlways(resp) ==
    IF ~resp.has_content THEN Raised("AttributeError")
    ELSE LET text == Decode(resp.content)
         IN  IF text.raised THEN Value(BytesRepr(resp.content)) ELSE text

\* _get_error_content, lines 265-279: the text, or the AttributeError that
\* str(response.content) raises again in the except branch.
GetErrorContent(resp) ==
    IF resp.status_code >= 400
    THEN IF ~resp.has_content THEN Raised("AttributeError")
         ELSE LET text == Decode(resp.content)
              IN  IF text.raised THEN Value(BytesRepr(resp.content)) ELSE text
    ELSE Value(<<>>)

\* Mutant: is_authenticated is not consulted.
GetUserInfoAnyUser(req) ==
    IF req.user.has_attr /\ ~req.user.value.is_none
    THEN [user |-> req.user.value, username |-> req.user.value.username]
    ELSE [user |-> PyNoneUser, username |-> ""]

\* _get_user_info, lines 281-296.
GetUserInfo(req) ==
    IF req.user.has_attr /\ ~req.user.value.is_none
       /\ req.user.value.is_authenticated
    THEN [user |-> req.user.value, username |-> req.user.value.username]
    ELSE [user |-> PyNoneUser, username |-> ""]

\* Lines 198-220 in their order: the keyword arguments of log_request, or the
\* first exception raised on the way.
DeriveFields(req, resp) ==
    LET request_size == CalculateRequestSize(req.content_length, req.body_len)
        error == GetErrorContent(resp)
        info == GetUserInfo(req)
    IN  IF request_size.raised THEN request_size
        ELSE IF error.raised THEN error
        ELSE Value([status_code |-> resp.status_code,
                    request_size |-> request_size.value,
                    response_size |-> CalculateResponseSize(resp),
                    error |-> error.value,
                    user |-> info.user,
                    username |-> info.username,
                    ip_address |-> GetClientIp(req)])

\* The dict log_request builds, with the derived fields.
FieldRecord(id, src, fields) ==
    [id |-> id, src |-> src] @@ fields

\* Mutant: the except branch is `pass`.
MwDeriveSilent(p) ==
    /\ ppc[p] = "idle"
    /\ nextId = 1
    /\ LET fields == DeriveFields(http_request, http_response)
       IN  IF fields.raised
           THEN UNCHANGED <<queue, enqueued, log>>
           ELSE /\ LogRequest(FieldRecord(nextId, p, fields.value))
                /\ UNCHANGED log
    /\ reqId' = [reqId EXCEPT ![p] = nextId]
    /\ hres' = [hres EXCEPT ![p] = Returned(http_response)]
    /\ result' = [result EXCEPT ![p] = Returned(http_response)]
    /\ nextId' = nextId + 1
    /\ UNCHANGED <<loggerVars, last_flush, workerVars, now, inserts, ppc,
                   lastPB, fieldVars>>

\* __call__ for the held request, get_response returning the held response:
\* lines 194-225 as one step.
MwDerive(p) ==
    /\ ppc[p] = "idle"
    /\ nextId = 1
    /\ LET fields == DeriveFields(http_request, http_response)
       IN  IF fields.raised
           THEN /\ log' = log \cup {[msg |-> "Error in RequestLoggingMiddleware",
                                     cause |-> fields.exc, ref |-> nextId]}
                /\ UNCHANGED <<queue, enqueued>>
           ELSE /\ LogRequest(FieldRecord(nextId, p, fields.value))
                /\ UNCHANGED log
    /\ reqId' = [reqId EXCEPT ![p] = nextId]
    /\ hres' = [hres EXCEPT ![p] = Returned(http_response)]
    /\ result' = [result EXCEPT ![p] = Returned(http_response)]
    /\ nextId' = nextId + 1
    /\ UNCHANGED <<loggerVars, last_flush, workerVars, now, inserts, ppc,
                   lastPB, fieldVars>>

\* The module's request_logger and one request with its response.
FieldInit ==
    /\ queue = <<>>
    /\ batch_size = RequestLoggerBatchSize
    /\ flush_interval = RequestLoggerFlushInterval
    /\ now = 0
    /\ last_flush = now
    /\ thread = "start"
    /\ batch = <<>>
    /\ inserts = <<>>
    /\ log = {}
    /\ nextId = 1
    /\ enqueued = {}
    /\ ppc = [p \in Producers |-> "idle"]
    /\ reqId = [p \in Producers |-> 0]
    /\ hres = [p \in Producers |-> NoOutcome]
    /\ result = [p \in Producers |-> NoOutcome]
    /\ lastPB = NoCall
    /\ http_request \in HttpRequests
    /\ http_response \in HttpResponses

\* ------------------------------------------------------------- specifications
Next ==
    \/ WorkerStep
    \/ MwCall
    \/ Tick

Spec == Init /\ [][Next]_vars

\* The logger with its thread, log_request called directly.
LoggerNext ==
    \/ WorkerStep
    \/ \E p \in Producers : LogRequestCall(p)
    \/ Tick

LoggerSpec == Init /\ [][LoggerNext]_vars

LiveSpec == LoggerSpec /\ WF_vars(WorkerStep) /\ WF_vars(Tick)

SyncNext ==
    \/ \E p \in Producers : LogRequestCall(p)
    \/ ProcessBatch

SyncSpec == SyncInit /\ [][SyncNext]_vars

\* The logger with its thread, and process_batch called on it as well: the
\* source has no check for the thread in process_batch. A process_batch call
\* is one step here, and one thread calls log_request.
MixedNext ==
    \/ WorkerStep
    \/ LogRequestCall("p1")
    \/ ProcessBatch
    \/ Tick

MixedSpec == Init /\ [][MixedNext]_vars

\* One middleware call on every request and response of the bounded sets.
FieldNext == MwDerive("p1")

FieldSpec == FieldInit /\ [][FieldNext]_vars

\* ------------------------------------------------------------- properties
\* The worker is inside _flush_batch, and the step is its return.
FlushReturns == thread \in {"flush_size", "flush_time"} /\ thread' # thread

\* The ids handed to the i-th bulk_create call.
CallIds(i) == IdsOf(inserts[i].recs)

\* C1: every return of _flush_batch leaves the batch empty, whatever the batch
\* held and whether bulk_create returned or raised.
C1_FlushLeavesBatchEmpty ==
    [][FlushReturns => batch' = <<>>]_vars

C1_Witness ==
    /\ batch = <<>>
    /\ thread = "time_check"
    /\ \E i, j \in DOMAIN inserts :
          /\ i < j
          /\ inserts[i].ok /\ Len(inserts[i].recs) = 1
          /\ ~inserts[j].ok /\ Len(inserts[j].recs) = 2
          /\ j = Len(inserts)

\* C2: the records of a batch whose bulk_create raised are dropped: they are
\* neither on the queue nor in the batch again, and no other bulk_create call
\* carries any of them.
C2_FailedBatchDropped ==
    \A i \in DOMAIN inserts :
        ~inserts[i].ok =>
            \A r \in CallIds(i) :
                /\ r \notin IdsOf(queue)
                /\ r \notin IdsOf(batch)
                /\ \A j \in DOMAIN inserts \ {i} : r \notin CallIds(j)

C2_Witness ==
    \E i, j \in DOMAIN inserts :
        /\ i < j
        /\ ~inserts[i].ok /\ inserts[i].recs # <<>>
        /\ inserts[j].ok /\ inserts[j].recs # <<>>
        /\ queue = <<>> /\ batch = <<>>


\* The background thread is in its loop.
Running == thread \in {"get", "flush_size", "time_check", "flush_time"}

\* Record r has been handed to a bulk_create call.
Handed(r) == \E i \in DOMAIN inserts : r \in CallIds(i)

\* C3: with the worker in its loop, scheduled, and the clock advancing, every
\* record put on the queue is eventually handed to a bulk_create call, also when
\* nothing more is enqueued and the batch stays below batch_size.
C3_EventuallyHanded ==
    \A r \in Ids : (r \in enqueued /\ Running) ~> Handed(r)

C3_Witness ==
    /\ batch_size = 2
    /\ enqueued = {1}
    /\ nextId = 2
    /\ \A p \in Producers : ppc[p] = "idle"
    /\ Len(inserts) = 1
    /\ CallIds(1) = {1}
    /\ queue = <<>> /\ batch = <<>>

\* ceil(n / b) for b >= 1.
CeilDiv(n, b) == (n + b - 1) \div b

\* The records of a sequence of bulk_create calls, in order.
RECURSIVE Flatten(_)
Flatten(calls) ==
    IF calls = <<>> THEN <<>> ELSE Head(calls).recs \o Flatten(Tail(calls))

\* C4: a process_batch call on N queued records with batch_size B >= 1, none of
\* whose bulk_create calls raises, persists exactly the N records in ceil(N/B)
\* calls: B records in every call but the last, N mod B in the last (B when B
\* divides N).
C4_ProcessBatchSplit ==
    (lastPB.called /\ ~lastPB.raised /\ batch_size >= 1) =>
        LET N == Len(lastPB.pre)
            B == batch_size
            K == Len(lastPB.calls)
        IN  /\ K = CeilDiv(N, B)
            /\ \A i \in 1..K : lastPB.calls[i].ok
            /\ \A i \in 1..(K - 1) : Len(lastPB.calls[i].recs) = B
            /\ K > 0 => Len(lastPB.calls[K].recs) = (IF N % B = 0 THEN B ELSE N % B)
            /\ Flatten(lastPB.calls) = lastPB.pre

C4_Witness ==
    /\ thread = None
    /\ lastPB.called /\ ~lastPB.raised
    /\ batch_size = 2
    /\ Len(lastPB.pre) = 3
    /\ Len(lastPB.calls) = 2
    /\ inserts = lastPB.calls

\* C5 (as claimed): process_batch returns with the queue empty and every record
\* that was queued at the call handed to a bulk_create call, also when a
\* bulk_create call raises.
C5_DrainCompletes ==
    (lastPB.called /\ batch_size >= 1) =>
        /\ lastPB.post = <<>>
        /\ \A r \in IdsOf(lastPB.pre) :
              \E i \in DOMAIN lastPB.calls : r \in IdsOf(lastPB.calls[i].recs)

\* C6: log_request can be completed in every reachable state, by every caller
\* and for every record: with any queue length, while the worker is inside
\* bulk_create, and after failed inserts.
C6_EnqueueAlwaysEnabled ==
    \A p \in Producers, id \in Ids :
        ENABLED LogRequest(Record(id, p, 200, 0))

C6_Witness ==
    /\ thread = "flush_size"
    /\ batch # <<>>
    /\ queue # <<>>
    /\ \E i \in DOMAIN inserts : ~inserts[i].ok

\* C7: in the worker-less configuration a log_request call lengthens the queue
\* by exactly one: the new record is at the tail and the records already queued
\* are as they were.
C7_EnqueueAppendsOne ==
    [][nextId' # nextId =>
          /\ Len(queue') = Len(queue) + 1
          /\ SubSeq(queue', 1, Len(queue)) = queue
          /\ queue'[Len(queue')].id = nextId]_vars

C7_Witness ==
    /\ thread = None
    /\ Len(queue) = 3
    /\ inserts = <<>>

\* Record x was enqueued before record y by the same request thread.
SameProducerBefore(x, y) == x.src = y.src /\ x.id < y.id

\* C8: the records of one producer go through the pipeline in enqueue order:
\* an earlier record is never in a later bulk_create call than a later one,
\* precedes it inside a shared call, and is not still waiting once the later one
\* has been handed over.
C8_ProducerOrderKept ==
    /\ \A i, j \in DOMAIN inserts :
          \A a \in DOMAIN inserts[i].recs, b \in DOMAIN inserts[j].recs :
              SameProducerBefore(inserts[i].recs[a], inserts[j].recs[b]) =>
                  (i < j \/ (i = j /\ a < b))
    /\ \A j \in DOMAIN inserts :
          \A b \in DOMAIN inserts[j].recs :
              /\ \A a \in DOMAIN queue :
                    ~SameProducerBefore(queue[a], inserts[j].recs[b])
              /\ \A a \in DOMAIN batch :
                    ~SameProducerBefore(batch[a], inserts[j].recs[b])

C8_Witness ==
    /\ Len(inserts) = 2
    /\ Len(inserts[1].recs) = 2
    /\ inserts[1].recs[1].src = "p1" /\ inserts[1].recs[1].id = 1
    /\ inserts[1].recs[2].src = "p2" /\ inserts[1].recs[2].id = 2
    /\ Len(inserts[2].recs) = 1
    /\ inserts[2].recs[1].src = "p1" /\ inserts[2].recs[1].id = 3

\* C9: when get_response returned a response, the middleware call returned that
\* same response, status and content unchanged, whether the record was derived
\* and enqueued or the derivation raised.
C9_ResponseUnchanged ==
    \A p \in Producers :
        hres[p].kind = "return" => result[p] = Returned(hres[p].value)

C9_Witness ==
    /\ hres["p1"].kind = "return"
    /\ hres["p1"].value.status_code = 404
    /\ result["p1"] = hres["p1"]
    /\ reqId["p1"] \notin enqueued
    /\ [msg |-> "Error in RequestLoggingMiddleware", cause |-> "ValueError",
        ref |-> reqId["p1"]] \in log
    /\ hres["p2"].kind = "return"
    /\ reqId["p2"] \in enqueued

\* C10: when get_response raises, the middleware call raises that same
\* exception, no record is enqueued for the request, and the queue and the
\* records enqueued before are as they were.
C10_HandlerErrorPropagates ==
    [][\A p \in Producers :
          (ppc[p] = "handler" /\ hres'[p].kind = "raise") =>
              /\ result'[p] = hres'[p]
              /\ reqId[p] \notin enqueued'
              /\ queue' = queue
              /\ enqueued' = enqueued]_vars

C10_Witness ==
    /\ result["p1"].kind = "raise"
    /\ reqId["p1"] = 2
    /\ reqId["p1"] \notin enqueued
    /\ enqueued = {1}
    /\ \E i \in DOMAIN queue : queue[i].src = "p1"

\* The middleware was called on the held request and its handler returned.
FieldCalled == http_request.held /\ result["p1"].kind = "return"

\* C11: when the derivation of a record field raises after the handler has
\* returned, the middleware logs one error line "Error in
\* RequestLoggingMiddleware: <cause>", enqueues no record for the request and
\* returns the handler's response.
C11_DerivationErrorCaught ==
    (FieldCalled /\ DeriveFields(http_request, http_response).raised) =>
        /\ log = {[msg |-> "Error in RequestLoggingMiddleware",
                   cause |-> DeriveFields(http_request, http_response).exc,
                   ref |-> reqId["p1"]]}
        /\ queue = <<>>
        /\ enqueued = {}
        /\ result["p1"] = Returned(http_response)
        /\ hres["p1"] = Returned(http_response)

\* A streaming 400 response: str(response.content) raised AttributeError.
C11_Witness ==
    /\ FieldCalled
    /\ http_response.status_code = 400
    /\ ~http_response.has_content
    /\ http_request.content_length = Header(<<"7">>)
    /\ [msg |-> "Error in RequestLoggingMiddleware", cause |-> "AttributeError",
        ref |-> 1] \in log
    /\ queue = <<>>


\* The records of request `id` in the pipeline: on the queue, in the worker's
\* batch, or handed to a bulk insert.
RECURSIVE CountIn(_, _)
CountIn(id, s) ==
    IF s = <<>> THEN 0
    ELSE (IF Head(s).id = id THEN 1 ELSE 0) + CountIn(id, Tail(s))

RECURSIVE CountInCalls(_, _)
CountInCalls(id, calls) ==
    IF calls = <<>> THEN 0
    ELSE CountIn(id, Head(calls).recs) + CountInCalls(id, Tail(calls))

Copies(id, q, b, calls) == CountIn(id, q) + CountIn(id, b) + CountInCalls(id, calls)

\* The step is a middleware call of p ending with the handler's response and
\* no exception in the field derivation.
LoggedReturn(p) ==
    \E resp \in Responses, cl \in ContentLengths, bl \in BodyLengths :
        /\ ~CalculateRequestSize(cl, bl).raised
        /\ MwReturn(p, resp, cl, bl)

\* C12: a middleware call whose handler returns and whose field derivation
\* does not raise makes exactly one log_request call: the step adds one record
\* of that request to the queue, and no other step adds a record, so k such
\* requests leave k records, one per request.
C12_OneRecordPerRequest ==
    [][ /\ \A p \in Producers :
             LoggedReturn(p) =>
                 /\ Copies(reqId[p], queue, batch, inserts) = 0
                 /\ Copies(reqId[p], queue', batch', inserts') = 1
                 /\ Len(queue') = Len(queue) + 1
        /\ \A id \in 1..MaxRequests :
             (\A p \in Producers : ~(LoggedReturn(p) /\ reqId[p] = id)) =>
                 Copies(id, queue', batch', inserts') =
                     Copies(id, queue, batch, inserts)
      ]_vars

\* Two requests answered, two records in the pipeline, one of each.
C12_Witness ==
    /\ \A p \in Producers : ppc[p] = "idle" /\ result[p].kind = "return"
    /\ log = {}
    /\ enqueued = {1, 2}
    /\ Copies(1, queue, batch, inserts) = 1
    /\ Copies(2, queue, batch, inserts) = 1
    /\ Len(queue) + Len(batch) = 1
    /\ Len(inserts) = 1


\* The step is the return of a _flush_batch whose bulk_create raised.
FlushFails ==
    /\ FlushReturns
    /\ Len(inserts') = Len(inserts) + 1
    /\ ~inserts'[Len(inserts')].ok

\* A bulk insert of the worker has failed, or the worker is inside a flush.
FlushTrouble ==
    \/ thread \in {"flush_size", "flush_time"}
    \/ \E i \in 1..Len(inserts) : ~inserts[i].ok

\* C13: a failed bulk insert in the worker never changes what the middleware
\* returns. The failing flush leaves every middleware call, finished or in
\* progress, and the queue as they were, and shows only as one new error line
\* "Error bulk creating records: <message>"; a handler returning during or
\* after a failed flush has its response returned unmodified.
C13_FlushFailureInvisible ==
    [][ /\ FlushFails =>
             /\ mwVars' = mwVars
             /\ queue' = queue
             /\ enqueued' = enqueued
             /\ LET line == [msg |-> "Error bulk creating records",
                             cause |-> "DB error", ref |-> Len(inserts')]
                IN  line \notin log /\ log' = log \cup {line}
        /\ \A p \in Producers :
             (FlushTrouble /\ ppc[p] = "handler" /\ ppc'[p] = "idle"
                 /\ hres'[p].kind = "return") =>
                 result'[p] = hres'[p]
      ]_vars

\* Request 1 was answered before its record's bulk insert failed, request 2
\* after it; both got the handler's response.
C13_Witness ==
    /\ Len(inserts) = 1
    /\ ~inserts[1].ok
    /\ CallIds(1) = {1}
    /\ reqId = [p \in Producers |-> IF p = "p1" THEN 1 ELSE 2]
    /\ \A p \in Producers : result[p].kind = "return" /\ result[p] = hres[p]
    /\ 2 \in IdsOf(queue)
    /\ log = {[msg |-> "Error bulk creating records", cause |-> "DB error",
               ref |-> 1]}


\* Bulk insert i of the worker raised.
FailedAt(i) == i \in DOMAIN inserts /\ ~inserts[i].ok

\* Record r was handed to a bulk_create call made after a failed one.
HandedAfterFailure(r) ==
    \E i, j \in DOMAIN inserts : i < j /\ FailedAt(i) /\ r \in CallIds(j)

\* C14: a bulk-insert failure does not end the worker loop. Once a flush has
\* raised the worker is still in its loop, and a record that is on the queue
\* after the failure is eventually dequeued, batched and handed to a later
\* bulk_create call.
C14_FlushFailureNotFatal ==
    /\ []((\E i \in DOMAIN inserts : FailedAt(i)) => Running)
    /\ \A r \in Ids :
          ((\E i \in DOMAIN inserts : FailedAt(i)) /\ r \in IdsOf(queue))
              ~> HandedAfterFailure(r)

\* Two flushes raised, the worker went on and a third one persisted record 3.
C14_Witness ==
    /\ Len(inserts) = 3
    /\ FailedAt(1) /\ FailedAt(2)
    /\ inserts[3].ok
    /\ 3 \in CallIds(3)
    /\ thread = "get"


\* C15: process_batch is idempotent: a second call with no enqueue since the
\* first one makes no bulk_create call and leaves the queue and the persisted
\* records as the first call left them.
C15_ProcessBatchIdempotent ==
    [][ (lastPB.called /\ queue = lastPB.post /\ ProcessBatch) =>
            (inserts' = inserts /\ queue' = queue) ]_vars


\* The request_size the record of the held request should carry: the declared
\* length when the header is there and is an integer, else the body's length.
DeclaredOrMeasured ==
    LET content_length == http_request.content_length
    IN  IF content_length.present /\ ~PyInt(content_length.text).raised
        THEN PyInt(content_length.text).value
        ELSE http_request.body_len

\* C16: request_size is the declared Content-Length when the header is present
\* and parseable as an integer; when it is absent, or present but not
\* parseable, request_size is the measured length of the request body.
C16_RequestSizeFallback ==
    (FieldCalled /\ ~GetErrorContent(http_response).raised) =>
        /\ Len(queue) = 1
        /\ queue[1].request_size = DeclaredOrMeasured


\* e is the first comma-separated entry of text: the part before its first
\* comma, or all of it when it has none.
IsFirstEntry(e, text) ==
    /\ Len(e) <= Len(text)
    /\ e = SubSeq(text, 1, Len(e))
    /\ \A i \in 1..Len(e) : e[i] # ","
    /\ Len(e) < Len(text) => text[Len(e) + 1] = ","

\* s without its leading and trailing blanks.
RECURSIVE Strip(_)
Strip(s) ==
    IF s # <<>> /\ Head(s) = " " THEN Strip(Tail(s))
    ELSE IF s # <<>> /\ s[Len(s)] = " " THEN Strip(SubSeq(s, 1, Len(s) - 1))
    ELSE s

\* The held request went through the middleware and its record is on the queue.
FieldLogged == FieldCalled /\ Len(queue) = 1

\* C17, as amended: ip_address is the first comma-separated entry of the
\* X-Forwarded-For header exactly as written, blanks included, when the header
\* is present and not empty; otherwise the REMOTE_ADDR value; None when
\* neither is available.
C17_ClientIpFirstEntry ==
    FieldLogged =>
        LET forwarded == http_request.x_forwarded_for
            ip == queue[1].ip_address
        IN  IF forwarded.present /\ forwarded.text # <<>>
            THEN ip.present /\ IsFirstEntry(ip.text, forwarded.text)
            ELSE ip = http_request.remote_addr

\* The header " a": the entry is recorded with its leading blank.
C17_Witness ==
    /\ FieldLogged
    /\ http_request.x_forwarded_for = Header(<<" ", "a">>)
    /\ http_request.remote_addr = Header(<<"b">>)
    /\ queue[1].ip_address = Header(<<" ", "a">>)

\* C17 as stated: the first entry trimmed of surrounding whitespace whenever
\* the header is present, REMOTE_ADDR otherwise, None when neither.
C17_ClientIpTrimmed ==
    FieldLogged =>
        LET forwarded == http_request.x_forwarded_for
            ip == queue[1].ip_address
        IN  IF forwarded.present
            THEN /\ ip.present
                 /\ \E e \in SeqsUpTo({"a", " ", ","}, Len(forwarded.text)) :
                        IsFirstEntry(e, forwarded.text) /\ ip.text = Strip(e)
            ELSE ip = http_request.remote_addr


\* text is the UTF-8 decoding of content.
IsDecodingOf(text, content) ==
    /\ Len(text) = Len(content)
    /\ \A i \in 1..Len(content) :
          content[i] \in DOMAIN Chr /\ text[i] = Chr[content[i]]

Decodable(content) == \A i \in 1..Len(content) : content[i] \in DOMAIN Chr

\* C18, as amended: error is the empty string when status_code is below 400;
\* when it is 400 or above, error is the decoded response body if the body is
\* valid UTF-8 and the raw textual form str(content) if it is not.
C18_ErrorContent ==
    FieldLogged =>
        LET error == queue[1].error
            content == http_response.content
        IN  IF http_response.status_code < 400 THEN error = <<>>
            ELSE IF Decodable(content) THEN IsDecodingOf(error, content)
            ELSE error = BytesRepr(content)

\* A 400 response whose body is the byte 0xFF: error is the text b'\xff'.
C18_Witness ==
    /\ FieldLogged
    /\ http_response.status_code = 400
    /\ http_response.content = <<255>>
    /\ queue[1].error = <<"b", "'", "\\xff", "'">>

\* C18 as stated: error is the empty string below 400 and the decoded
\* response body at 400 or above.
C18_ErrorIsDecodedBody ==
    FieldLogged =>
        IF http_response.status_code < 400 THEN queue[1].error = <<>>
        ELSE IsDecodingOf(queue[1].error, http_response.content)


\* The held request carries a logged-in user.
Authenticated ==
    /\ http_request.user.has_attr
    /\ ~http_request.user.value.is_none
    /\ http_request.user.value.is_authenticated

\* C19: the record of an authenticated request carries the request's user and
\* that user's username; the record of an anonymous request (no user
\* attribute, a None user, or a user that is not authenticated) carries no
\* user and the empty username.
C19_UserInfo ==
    FieldLogged =>
        IF Authenticated
        THEN /\ queue[1].user = http_request.user.value
             /\ queue[1].username = http_request.user.value.username
             /\ queue[1].username # ""
        ELSE /\ queue[1].user = PyNoneUser
             /\ queue[1].username = ""

\* The request of user "testuser" is recorded under that user and name.
C19_Witness ==
    /\ FieldLogged
    /\ http_request.user = [has_attr |-> TRUE, value |-> AuthUser("testuser")]
    /\ queue[1].user = AuthUser("testuser")
    /\ queue[1].username = "testuser"


\* C20: for batch_size >= 1 the worker's batch never holds more than
\* batch_size records; it holds batch_size records only while the worker is on
\* its way into the size flush of the same iteration, and fewer than
\* batch_size whenever an iteration starts (the worker is at queue.get), also
\* when every bulk insert fails.
C20_BatchBounded ==
    batch_size >= 1 =>
        /\ Len(batch) <= batch_size
        /\ Len(batch) = batch_size => thread = "flush_size"
        /\ thread = "get" => Len(batch) < batch_size

\* Every bulk insert so far has failed; the worker starts an iteration with
\* one record in a batch of size 2.
C20_Witness ==
    /\ batch_size = 2
    /\ Len(inserts) >= 1
    /\ \A i \in DOMAIN inserts : ~inserts[i].ok
    /\ thread = "get"
    /\ Len(batch) = 1
    /\ queue = <<>>


\* The batch is non-empty and more than flush_interval has passed since
\* last_flush.
FlushDue == batch # <<>> /\ now - last_flush > flush_interval

\* C21: every iteration of the worker loop, after a dequeue (with or without a
\* size flush) as after a timed-out wait, ends with the time test; the test
\* sends the worker into a flush of the batch exactly when the batch is
\* non-empty and the time since last_flush is strictly greater than
\* flush_interval, and that flush then happens; with an empty batch or an
\* elapsed time of at most flush_interval the iteration ends without one.
C21_TimeTriggeredFlush ==
    /\ [][ /\ (thread = "get" /\ thread' # thread) =>
                 thread' \in {"flush_size", "time_check"}
           /\ (thread = "flush_size" /\ thread' # thread) =>
                 thread' = "time_check"
           /\ (thread = "time_check" /\ thread' # thread) =>
                 /\ thread' = IF FlushDue THEN "flush_time" ELSE "get"
                 /\ inserts' = inserts
           /\ (thread = "flush_time" /\ thread' # thread) =>
                 /\ FlushDue
                 /\ Len(inserts') = Len(inserts) + 1
                 /\ inserts'[Len(inserts')].recs = batch
                 /\ thread' = "get"
         ]_vars
    /\ (thread = "time_check" /\ FlushDue) ~> (thread = "get" /\ batch = <<>>)
    /\ (thread = "get" /\ queue = <<>> /\ FlushDue) ~> (batch = <<>>)

\* A batch of one record, below batch_size, at the time flush: flush_interval
\* has just been exceeded and the queue is empty.
C21_Witness ==
    /\ thread = "flush_time"
    /\ batch_size = 2
    /\ Len(batch) = 1
    /\ queue = <<>>
    /\ now - last_flush = flush_interval + 1
    /\ inserts = <<>>


\* The step is the return of a _flush_batch whose bulk_create succeeded.
FlushSucceeds ==
    /\ FlushReturns
    /\ Len(inserts') = Len(inserts) + 1
    /\ inserts'[Len(inserts')].ok
    /\ inserts'[Len(inserts')].by = "worker"

\* C22: last_flush is the construction time until a bulk insert of
\* _flush_batch succeeds and from then on the time of the latest such
\* success: it starts at the construction time, a successful flush (size or
\* time triggered) sets it to the current time, and every other step (a failed
\* flush, log_request, process_batch, the clock, the other worker steps)
\* leaves it unchanged.
C22_LastFlush ==
    /\ last_flush = now
    /\ [][ IF FlushSucceeds THEN last_flush' = now
           ELSE last_flush' = last_flush ]_vars

\* A flush succeeded at a time after construction, a later one failed, and
\* process_batch made a bulk insert: last_flush is the time of the success.
C22_Witness ==
    /\ Len(inserts) = 3
    /\ inserts[1].by = "worker" /\ inserts[1].ok
    /\ inserts[2].by = "worker" /\ ~inserts[2].ok
    /\ inserts[3].by = "process_batch"
    /\ 0 < last_flush
    /\ last_flush < now


\* The step is one of the worker thread.
WorkerMoves == thread # None /\ thread' # thread

\* The step is a process_batch call.
ProcessBatchMoves ==
    /\ lastPB'.called
    /\ lastPB'.pre = queue
    /\ lastPB'.post = queue'

\* C23, as amended: a logger has at most one worker thread, started once by
\* __init__ and never again; that worker is the sole mutator of its batch and
\* of last_flush; records leave the queue only through the worker or through
\* a call of the public process_batch, which dequeues as well but writes
\* neither the worker's batch nor last_flush.
C23_WorkerSoleMutator ==
    [][ /\ (batch' # batch \/ last_flush' # last_flush) => WorkerMoves
        /\ Len(queue') < Len(queue) => (WorkerMoves \/ ProcessBatchMoves)
        /\ thread' # thread => (thread # "dead" /\ thread' # "start")
      ]_vars

\* process_batch took a record from the queue of a logger whose worker is in
\* its loop with a record of its own in the batch.
C23_Witness ==
    /\ Running
    /\ batch # <<>>
    /\ lastPB.called
    /\ lastPB.pre # <<>>
    /\ lastPB.post = <<>>
    /\ queue = <<>>
    /\ \A i \in DOMAIN inserts : inserts[i].by = "process_batch"

\* C23 as stated: only the worker takes records from the queue, and only the
\* worker writes the batch and last_flush.
C23_WorkerSoleConsumer ==
    [][ (Len(queue') < Len(queue) \/ batch' # batch \/ last_flush' # last_flush)
            => WorkerMoves ]_vars


\* The records handed to bulk_create calls that returned (persisted) and to
\* calls that raised (dropped).
RECURSIVE HandedCount(_, _)
HandedCount(calls, ok) ==
    IF calls = <<>> THEN 0
    ELSE (IF Head(calls).ok = ok THEN Len(Head(calls).recs) ELSE 0)
         + HandedCount(Tail(calls), ok)

\* C24: at every point of every interleaving of log_request calls and worker
\* steps each enqueued record is in exactly one place (the queue, the worker's
\* batch, a successful bulk insert, or a failed one), the four counts add up
\* to the number of log_request calls, and no record is handed to bulk_create
\* twice.
C24_RecordsConserved ==
    /\ \A id \in Ids :
          Copies(id, queue, batch, inserts) = IF id < nextId THEN 1 ELSE 0
    /\ Len(queue) + Len(batch) + HandedCount(inserts, TRUE)
          + HandedCount(inserts, FALSE) = nextId - 1
    /\ \A id \in Ids : CountInCalls(id, inserts) <= 1

\* Three records from two producers: one dropped by a failed flush, one
\* persisted, one in the worker's batch.
C24_Witness ==
    /\ nextId = 4
    /\ HandedCount(inserts, FALSE) = 1
    /\ HandedCount(inserts, TRUE) = 1
    /\ Len(batch) = 1
    /\ queue = <<>>
    /\ \E i, j \in 1..Len(inserts) : inserts[i].recs[1].src # inserts[j].recs[1].src


\* C25: no bulk_create call is made with an empty batch: not by the size
\* flush, not by the time flush (also when it follows a flush in the same
\* iteration), not by process_batch (also on an empty queue).
C25_NoEmptyBulkCreate ==
    \A i \in DOMAIN inserts : inserts[i].recs # <<>>

\* A size flush failed, so last_flush stayed behind and the time test that
\* followed found flush_interval exceeded with the batch empty; process_batch
\* was called on the empty queue. Only the one bulk_create call was made.
C25_Witness ==
    /\ batch_size = 1
    /\ thread = "get"
    /\ batch = <<>>
    /\ now - last_flush > flush_interval
    /\ Len(inserts) = 1
    /\ ~inserts[1].ok
    /\ inserts[1].by = "worker"
    /\ lastPB.called
    /\ lastPB.pre = <<>>
    /\ lastPB.calls = <<>>


\* C26: when a bulk_create call raises inside process_batch, the exception
\* reaches the caller of process_batch: the failed call is the last one the
\* run makes; the records handed to it and to the calls before it are off the
\* queue, and the records not yet dequeued are still on the queue, in their
\* order.
C26_ProcessBatchRaises ==
    (lastPB.called /\ \E i \in DOMAIN lastPB.calls : ~lastPB.calls[i].ok) =>
        LET K == Len(lastPB.calls)
        IN  /\ lastPB.raised
            /\ ~lastPB.calls[K].ok
            /\ \A i \in 1..(K - 1) : lastPB.calls[i].ok
            /\ IdsOf(lastPB.calls[K].recs) \cap IdsOf(lastPB.post) = {}
            /\ lastPB.pre = Flatten(lastPB.calls) \o lastPB.post

\* Three records, batch_size 1: the second bulk_create raised, record 3 is
\* still queued.
C26_Witness ==
    /\ batch_size = 1
    /\ lastPB.called /\ lastPB.raised
    /\ Len(lastPB.pre) = 3
    /\ Len(lastPB.calls) = 2
    /\ lastPB.calls[1].ok /\ ~lastPB.calls[2].ok
    /\ IdsOf(lastPB.post) = {3}
    /\ queue = lastPB.post

\* C27: with no worker, no other consumer and no log_request call running
\* beside it, process_batch terminates for every finite queue and dequeues
\* each queued record exactly once.
C27_ProcessBatchDequeuesAll ==
    lastPB.called =>
        /\ lastPB.post = <<>>
        /\ \A id \in IdsOf(lastPB.pre) :
              CountInCalls(id, lastPB.calls) = 1

====
